---- MODULE Spec2Model ----
(***************************************************************************)
(* Model of scripts/fetch_images.py: the rate-limited page fetcher, the    *)
(* best-effort image downloader, the per-species processor and the         *)
(* orchestrator, as coroutines interleaved on one asyncio event loop; and   *)
(* of scripts/rename_files.py, the renumbering of the files of a folder.   *)
(*                                                                         *)
(* Strings are sequences of one-character (or one-token) strings, so that  *)
(* re.sub, str.lower, str.replace and f-strings are computed, not assumed. *)
(***************************************************************************)
EXTENDS Integers, Sequences, FiniteSets, TLC

VARIABLES
    birds_df,       \* the species table: sequence of [bird_name, taxon_id]
    mainPc,         \* position of main(): gathering, closed, done, aborted, cancelled
    session,        \* the shared aiohttp.ClientSession: "open" or "closed"
    semaphore,      \* value of global_semaphore (free permits)
    waiters,        \* fetch_page tasks blocked in semaphore.acquire(), oldest first
    sleepLeft,      \* time left of the asyncio.sleep of the permit holder
    sinceGet,       \* time since the last page GET was issued (saturating)
    spPc,           \* position of each process_species task
    dirs,           \* directories that exist under RAW_DATA_PATH
    fetch,          \* position of each fetch_page task
    data,           \* the parsed body each finished fetch_page returned
    licensing_metadata, \* per species, the records accumulated by process_species
    downloads,      \* per species, the download_content tasks: [url, filename, st]
    files,          \* paths written on disk by download_content
    all_licensing,  \* main's merged list
    ledger,         \* rows of attribution_credit.csv, or NoLedger
    returned,       \* the species whose task has returned, in the order they did
    folder,         \* rename_image_files: the folder, file name -> content
    files_list,     \* rename_image_files: the names listed, sorted
    idx,            \* rename_image_files: index of the file the loop is at
    renamePc        \* rename_image_files: idle, listing, renaming, done, raised

\* the variables of fetch_images.py and those of rename_files.py
runVars == <<birds_df, mainPc, session, semaphore, waiters, sleepLeft, sinceGet, spPc, dirs,
             fetch, data, licensing_metadata, downloads, files,
             all_licensing, ledger, returned>>

renameVars == <<folder, files_list, idx, renamePc>>

vars == <<runVars, renameVars>>

\* ---------------------------------------------------------------- bounds
NumSpecies == 2          \* rows of the species table
MaxPhotos == 2           \* photos with a url the API serves in one run

\* ------------------------------------------------------- program constants
API_REQUEST_INTERVAL == 5
PAGES_TO_FETCH == 2

Species == 1..NumSpecies
Pages == 1..PAGES_TO_FETCH

RAW_DATA_PATH == <<"raw">>

Min(a, b) == IF a < b THEN a ELSE b
Max(a, b) == IF a > b THEN a ELSE b

\* ------------------------------------------------------------ string model
\* str.lower on the characters the species names use
Lower(c) ==
    CASE c = "A" -> "a"
      [] c = "B" -> "b"
      [] c = "C" -> "c"
      [] OTHER -> c

\* re.sub(r"[- ]", "_", bird_name).lower()
BirdNameReplace(bird_name) ==
    [i \in DOMAIN bird_name |->
        Lower(IF bird_name[i] \in {"-", " "} THEN "_" ELSE bird_name[i])]

\* os.path.join(a, b)
PathJoin(a, b) == a \o <<"/">> \o b

\* species_dir = os.path.join(RAW_DATA_PATH, bird_name_replace)
SpeciesDir(bird_name) == PathJoin(RAW_DATA_PATH, BirdNameReplace(bird_name))

Digit(d) ==
    CASE d = 0 -> "0" [] d = 1 -> "1" [] d = 2 -> "2" [] d = 3 -> "3"
      [] d = 4 -> "4" [] d = 5 -> "5" [] d = 6 -> "6" [] d = 7 -> "7"
      [] d = 8 -> "8" [] d = 9 -> "9"

\* str(n) of a non-negative integer, as in the f-string
RECURSIVE Str(_)
Str(n) == IF n < 10 THEN <<Digit(n)>> ELSE Str(n \div 10) \o <<Digit(n % 10)>>

\* the digit a character stands for
DigitVal(c) == CHOOSE d \in 0..9 : Digit(d) = c

\* f"{bird_name_replace}_{image_counter}.jpg"
Filename(bird_name, image_counter) ==
    BirdNameReplace(bird_name) \o <<"_">> \o Str(image_counter) \o <<".jpg">>

\* photo_url.replace("square", "medium"), on a url given as its tokens
MediumUrl(photo_url) ==
    [i \in DOMAIN photo_url |->
        IF photo_url[i] = "square" THEN "medium" ELSE photo_url[i]]

\* ------------------------------------------------------- the API's bodies
\* A body the observation endpoint may answer with.  NoData: not fetched yet.
NoData == [kind |-> "nodata"]
Falsy == [kind |-> "falsy"]      \* {} or null: `if result` is false
NoKey == [kind |-> "nokey"]      \* a non-empty object without "results"

\* url of photo k of observation o of page p of taxon t; <<>> is the empty url
PhotoUrl(t, p, o, k) == <<"photos", Digit(t), Digit(p), Digit(o), Digit(k), "square">>

\* A page shape is a sequence of observations, an observation a sequence of
\* booleans: TRUE for a photo that carries a url, FALSE for one with none.
PageShapes ==
    { <<>>,
      << <<TRUE>> >>,
      << <<TRUE>>, <<>>, <<FALSE, TRUE>> >>,
      << <<TRUE, FALSE, TRUE>> >> }

Photo(t, p, o, k, hasUrl) ==
    [url |-> IF hasUrl THEN PhotoUrl(t, p, o, k) ELSE <<>>,
     license_code |-> "cc-by",
     attribution |-> "c"]

Observation(t, p, o, shape) ==
    [id |-> 100 * t + 10 * p + o,
     species_guess |-> "guess",
     photos |-> [k \in DOMAIN shape |-> Photo(t, p, o, k, shape[k])]]

PageBody(t, p, shape) ==
    [kind |-> "page",
     results |-> [o \in DOMAIN shape |-> Observation(t, p, o, shape[o])]]

Bodies(t, p) == {Falsy, NoKey} \cup {PageBody(t, p, sh) : sh \in PageShapes}

RECURSIVE SumSeq(_)
SumSeq(q) == IF q = <<>> THEN 0 ELSE Head(q) + SumSeq(Tail(q))

\* photos with a non-empty url in one observation, in one body
UrlsOfObs(obs) == Cardinality({k \in DOMAIN obs.photos : obs.photos[k].url # <<>>})
UrlsOfBody(body) ==
    IF body.kind = "page"
    THEN SumSeq([o \in DOMAIN body.results |-> UrlsOfObs(body.results[o])])
    ELSE 0

\* --------------------------------------------- process_species, lines 102-127
\* The loop state: the download tasks, the records and image_counter.
LoopInit == [tasks |-> <<>>, metadata |-> <<>>, image_counter |-> 1]

\* PhotoStep as it would be without `if photo_url:`
PhotoStepAnyUrl(acc, bird_name, obs, photo) ==
    LET medium_url == MediumUrl(photo.url)
        name == Filename(bird_name, acc.image_counter)
    IN [tasks |-> Append(acc.tasks,
                   [url |-> medium_url,
                    filename |-> PathJoin(SpeciesDir(bird_name), name),
                    st |-> "inflight"]),
        metadata |-> Append(acc.metadata,
                   [observation_id |-> obs.id,
                    species |-> obs.species_guess,
                    photo_url |-> photo.url,
                    medium_url |-> medium_url,
                    license_code |-> photo.license_code,
                    attribution |-> photo.attribution,
                    filename |-> name]),
        image_counter |-> acc.image_counter + 1]

\* PhotoStep as it would be without `image_counter += 1`
PhotoStepNoIncrement(acc, bird_name, obs, photo) ==
    IF photo.url # <<>>
    THEN LET medium_url == MediumUrl(photo.url)
             name == Filename(bird_name, acc.image_counter)
         IN [tasks |-> Append(acc.tasks,
                        [url |-> medium_url,
                         filename |-> PathJoin(SpeciesDir(bird_name), name),
                         st |-> "inflight"]),
             metadata |-> Append(acc.metadata,
                        [observation_id |-> obs.id,
                         species |-> obs.species_guess,
                         photo_url |-> photo.url,
                         medium_url |-> medium_url,
                         license_code |-> photo.license_code,
                         attribution |-> photo.attribution,
                         filename |-> name]),
             image_counter |-> acc.image_counter]
    ELSE acc

\* the body of `for photo in obs.get("photos", [])`
PhotoStep(acc, bird_name, obs, photo) ==
    IF photo.url # <<>>
    THEN LET medium_url == MediumUrl(photo.url)
             name == Filename(bird_name, acc.image_counter)
         IN [tasks |-> Append(acc.tasks,
                        [url |-> medium_url,
                         filename |-> PathJoin(SpeciesDir(bird_name), name),
                         st |-> "inflight"]),
             metadata |-> Append(acc.metadata,
                        [observation_id |-> obs.id,
                         species |-> obs.species_guess,
                         photo_url |-> photo.url,
                         medium_url |-> medium_url,
                         license_code |-> photo.license_code,
                         attribution |-> photo.attribution,
                         filename |-> name]),
             image_counter |-> acc.image_counter + 1]
    ELSE acc

RECURSIVE PhotosLoop(_, _, _, _)
PhotosLoop(acc, bird_name, obs, k) ==
    IF k > Len(obs.photos) THEN acc
    ELSE PhotosLoop(PhotoStep(acc, bird_name, obs, obs.photos[k]), bird_name, obs, k + 1)

RECURSIVE ObsLoop(_, _, _, _)
ObsLoop(acc, bird_name, observations, o) ==
    IF o > Len(observations) THEN acc
    ELSE ObsLoop(PhotosLoop(acc, bird_name, observations[o], 1),
                 bird_name, observations, o + 1)

\* `if result and "results" in result`
HasResults(result) == result.kind = "page"

\* ResultsLoop as it would be if a page without results ended the loop
RECURSIVE ResultsLoopStopsAtBadPage(_, _, _, _)
ResultsLoopStopsAtBadPage(acc, bird_name, results, i) ==
    IF i > Len(results) THEN acc
    ELSE IF HasResults(results[i])
         THEN ResultsLoopStopsAtBadPage(ObsLoop(acc, bird_name, results[i].results, 1),
                                        bird_name, results, i + 1)
         ELSE acc

RECURSIVE ResultsLoop(_, _, _, _)
ResultsLoop(acc, bird_name, results, i) ==
    IF i > Len(results) THEN acc
    ELSE ResultsLoop(IF HasResults(results[i])
                     THEN ObsLoop(acc, bird_name, results[i].results, 1)
                     ELSE acc,
                     bird_name, results, i + 1)

\* GatherResults as it would be if the last page came first
GatherResultsReversed(s) == [p \in Pages |-> data[s][PAGES_TO_FETCH + 1 - p]]

\* asyncio.gather(*fetch_tasks): the results in the order of the tasks given
GatherResults(s) == [p \in Pages |-> data[s][p]]

\* ----------------------------------------------------------------- inputs
\* Species names: "A B", "a-b" (same slug as "A B") and "C".
BirdNames == << <<"A", " ", "B">>, <<"a", "-", "b">>, <<"C">> >>

\* The species tables of the runs explored: the names taken in turn from
\* BirdNames, starting at its first or at its second entry.
SpeciesTables ==
    { [s \in Species |->
        [bird_name |-> BirdNames[((s + first - 2) % Len(BirdNames)) + 1], taxon_id |-> s]] :
      first \in 1..2 }

NoLedger == <<[kind |-> "noledger"]>>

\* fetch_images.py before main() has run
RunInit ==
    /\ birds_df \in SpeciesTables
    /\ mainPc = "gathering"
    /\ session = "open"
    /\ semaphore = 1
    /\ waiters = <<>>
    /\ sleepLeft = 0
    /\ sinceGet = API_REQUEST_INTERVAL
    /\ spPc = [s \in Species |-> "init"]
    /\ dirs = {}
    /\ fetch = [s \in Species |-> [p \in Pages |-> "none"]]
    /\ data = [s \in Species |-> [p \in Pages |-> NoData]]
    /\ licensing_metadata = [s \in Species |-> <<>>]
    /\ downloads = [s \in Species |-> <<>>]
    /\ files = {}
    /\ all_licensing = <<>>
    /\ ledger = NoLedger
    /\ returned = <<>>

\* rename_image_files is not called
Init ==
    /\ RunInit
    /\ folder = <<>>
    /\ files_list = <<>>
    /\ idx = 1
    /\ renamePc = "idle"

\* photos with a url the API has served so far in this run: those of the
\* bodies still held, and those of a returned species, one per download task
PhotosServed ==
    SumSeq([s \in Species |->
        IF spPc[s] = "done"
        THEN Len(downloads[s])
        ELSE SumSeq([p \in Pages |-> UrlsOfBody(data[s][p])])])

\* ------------------------------------------------------------ fetch_page
\* FetchAcquire as it would be with no permit to wait for
FetchAcquireNoPermit(s, p) ==
    /\ fetch[s][p] = "pending"
    /\ waiters # <<>> /\ Head(waiters) = <<s, p>>
    /\ session = "open"
    /\ \A r \in Species : spPc[r] # "init"
    /\ semaphore' = semaphore - 1
    /\ waiters' = Tail(waiters)
    /\ fetch' = [fetch EXCEPT ![s][p] = "inflight"]
    /\ sinceGet' = 0
    /\ UNCHANGED <<renameVars, birds_df, returned, mainPc, session, sleepLeft, spPc, dirs,
                   data, licensing_metadata, downloads, files, all_licensing, ledger>>

\* `async with semaphore` (line 31): the oldest waiter takes the free permit
\* and issues the GET (line 32).  Fetch tasks first run once every species
\* task has run up to its gather.
FetchAcquire(s, p) ==
    /\ fetch[s][p] = "pending"
    /\ waiters # <<>> /\ Head(waiters) = <<s, p>>
    /\ semaphore > 0
    /\ session = "open"
    /\ \A r \in Species : spPc[r] # "init"
    /\ semaphore' = semaphore - 1
    /\ waiters' = Tail(waiters)
    /\ fetch' = [fetch EXCEPT ![s][p] = "inflight"]
    /\ sinceGet' = 0
    /\ UNCHANGED <<renameVars, birds_df, returned, mainPc, session, sleepLeft, spPc, dirs,
                   data, licensing_metadata, downloads, files, all_licensing, ledger>>

\* the response arrives and parses (line 33); the cooldown sleep starts (line 34)
FetchRespond(s, p) ==
    /\ fetch[s][p] = "inflight"
    /\ session = "open"
    /\ \E body \in Bodies(birds_df[s].taxon_id, p) :
        /\ PhotosServed + UrlsOfBody(body) <= MaxPhotos
        /\ data' = [data EXCEPT ![s][p] = body]
    /\ fetch' = [fetch EXCEPT ![s][p] = "cooldown"]
    /\ sleepLeft' = API_REQUEST_INTERVAL
    /\ UNCHANGED <<renameVars, birds_df, returned, mainPc, session, semaphore, waiters,
                   sinceGet, spPc, dirs, licensing_metadata, downloads, files,
                   all_licensing, ledger>>

\* FetchReturn as it would be if the permit were not given back
FetchReturnKeepsPermit(s, p) ==
    /\ fetch[s][p] = "cooldown"
    /\ sleepLeft = 0
    /\ fetch' = [fetch EXCEPT ![s][p] = "done"]
    /\ UNCHANGED <<renameVars, birds_df, returned, mainPc, session, semaphore, waiters,
                   sleepLeft, sinceGet, spPc, dirs, data, licensing_metadata, downloads,
                   files, all_licensing, ledger>>

\* the sleep is over: return data, leaving `async with semaphore` (line 35)
FetchReturn(s, p) ==
    /\ fetch[s][p] = "cooldown"
    /\ sleepLeft = 0
    /\ semaphore' = semaphore + 1
    /\ fetch' = [fetch EXCEPT ![s][p] = "done"]
    /\ UNCHANGED <<renameVars, birds_df, returned, mainPc, session, waiters, sleepLeft,
                   sinceGet, spPc, dirs, data, licensing_metadata, downloads, files,
                   all_licensing, ledger>>

\* session.get or response.json() raises (lines 32-33): the exception leaves
\* both `async with` blocks, releasing the permit without reaching the sleep
FetchRaise(s, p) ==
    /\ fetch[s][p] = "inflight"
    /\ semaphore' = semaphore + 1
    /\ fetch' = [fetch EXCEPT ![s][p] = "failed"]
    /\ UNCHANGED <<renameVars, birds_df, returned, mainPc, session, waiters, sleepLeft,
                   sinceGet, spPc, dirs, data, licensing_metadata, downloads, files,
                   all_licensing, ledger>>

\* one unit of time passes
Tick ==
    /\ sleepLeft' = Max(0, sleepLeft - 1)
    /\ sinceGet' = Min(API_REQUEST_INTERVAL, sinceGet + 1)
    /\ UNCHANGED <<renameVars, birds_df, returned, mainPc, session, semaphore, waiters,
                   spPc, dirs, fetch, data, licensing_metadata, downloads, files,
                   all_licensing, ledger>>

\* ------------------------------------------------------- process_species
\* ProcessStart as it would be without os.makedirs
ProcessStartNoDir(s) ==
    /\ spPc[s] = "init"
    /\ mainPc = "gathering"
    /\ \A r \in Species : r < s => spPc[r] # "init"
    /\ fetch' = [fetch EXCEPT ![s] = [p \in Pages |-> "pending"]]
    /\ waiters' = waiters \o [p \in Pages |-> <<s, p>>]
    /\ spPc' = [spPc EXCEPT ![s] = "fetching"]
    /\ UNCHANGED <<renameVars, birds_df, returned, mainPc, session, semaphore, sleepLeft,
                   sinceGet, dirs, data, licensing_metadata, downloads, files,
                   all_licensing, ledger>>

\* lines 80-100: the directory, the fetch tasks, `await asyncio.gather`.
\* The species tasks first run in the order main created them.
ProcessStart(s) ==
    /\ spPc[s] = "init"
    /\ mainPc = "gathering"
    /\ \A r \in Species : r < s => spPc[r] # "init"
    /\ dirs' = dirs \cup {SpeciesDir(birds_df[s].bird_name)}
    /\ fetch' = [fetch EXCEPT ![s] = [p \in Pages |-> "pending"]]
    /\ waiters' = waiters \o [p \in Pages |-> <<s, p>>]
    /\ spPc' = [spPc EXCEPT ![s] = "fetching"]
    /\ UNCHANGED <<renameVars, birds_df, returned, mainPc, session, semaphore, sleepLeft,
                   sinceGet, data, licensing_metadata, downloads, files, all_licensing,
                   ledger>>

\* ProcessResults as it would be if it went on as soon as one page was in
ProcessResultsFirstPage(s) ==
    /\ spPc[s] = "fetching"
    /\ \E p \in Pages : fetch[s][p] = "done"
    /\ LET acc == ResultsLoop(LoopInit, birds_df[s].bird_name, GatherResults(s), 1)
       IN /\ downloads' = [downloads EXCEPT ![s] = acc.tasks]
          /\ licensing_metadata' = [licensing_metadata EXCEPT ![s] = acc.metadata]
    /\ spPc' = [spPc EXCEPT ![s] = "downloading"]
    /\ UNCHANGED <<renameVars, birds_df, returned, mainPc, session, semaphore, waiters,
                   sleepLeft, sinceGet, dirs, fetch, data, files, all_licensing, ledger>>

\* ProcessResults as it would be if image_counter went on from the number of
\* files already on disk
ProcessResultsCountsFiles(s) ==
    /\ spPc[s] = "fetching"
    /\ \A p \in Pages : fetch[s][p] = "done"
    /\ LET acc == ResultsLoop([LoopInit EXCEPT !.image_counter = 1 + Cardinality(files)],
                              birds_df[s].bird_name, GatherResults(s), 1)
       IN /\ downloads' = [downloads EXCEPT ![s] = acc.tasks]
          /\ licensing_metadata' = [licensing_metadata EXCEPT ![s] = acc.metadata]
    /\ spPc' = [spPc EXCEPT ![s] = "downloading"]
    /\ UNCHANGED <<renameVars, birds_df, returned, mainPc, session, semaphore, waiters,
                   sleepLeft, sinceGet, dirs, fetch, data, files, all_licensing, ledger>>

\* lines 100-130: all pages are in; build the tasks and the records and start
\* the downloads
ProcessResults(s) ==
    /\ spPc[s] = "fetching"
    /\ \A p \in Pages : fetch[s][p] = "done"
    /\ LET acc == ResultsLoop(LoopInit, birds_df[s].bird_name, GatherResults(s), 1)
       IN /\ downloads' = [downloads EXCEPT ![s] = acc.tasks]
          /\ licensing_metadata' = [licensing_metadata EXCEPT ![s] = acc.metadata]
    /\ spPc' = [spPc EXCEPT ![s] = "downloading"]
    /\ UNCHANGED <<renameVars, birds_df, returned, mainPc, session, semaphore, waiters,
                   sleepLeft, sinceGet, dirs, fetch, data, files, all_licensing, ledger>>

\* SpeciesRaise as it would be if gather handed the exception back as a
\* result (return_exceptions=True) and the loop went over the other pages
SpeciesRaiseSwallowed(s) ==
    /\ spPc[s] = "fetching"
    /\ \E p \in Pages : fetch[s][p] = "failed"
    /\ \A p \in Pages : fetch[s][p] \in {"done", "failed"}
    /\ LET acc == ResultsLoop(LoopInit, birds_df[s].bird_name, GatherResults(s), 1)
       IN /\ downloads' = [downloads EXCEPT ![s] = acc.tasks]
          /\ licensing_metadata' = [licensing_metadata EXCEPT ![s] = acc.metadata]
    /\ spPc' = [spPc EXCEPT ![s] = "downloading"]
    /\ UNCHANGED <<renameVars, birds_df, returned, mainPc, session, semaphore, waiters,
                   sleepLeft, sinceGet, dirs, fetch, data, files, all_licensing, ledger>>

\* line 100: gather re-raises the first exception of a fetch task
SpeciesRaise(s) ==
    /\ spPc[s] = "fetching"
    /\ \E p \in Pages : fetch[s][p] = "failed"
    /\ spPc' = [spPc EXCEPT ![s] = "failed"]
    /\ UNCHANGED <<renameVars, birds_df, returned, mainPc, session, semaphore, waiters,
                   sleepLeft, sinceGet, dirs, fetch, data, licensing_metadata, downloads,
                   files, all_licensing, ledger>>

\* lines 130-131: every download task has ended; return licensing_metadata
\* (the local `results` dies with the call)
SpeciesReturn(s) ==
    /\ spPc[s] = "downloading"
    /\ \A k \in DOMAIN downloads[s] : downloads[s][k].st \in {"ok", "failed"}
    /\ spPc' = [spPc EXCEPT ![s] = "done"]
    /\ data' = [data EXCEPT ![s] = [p \in Pages |-> NoData]]
    /\ returned' = Append(returned, s)
    /\ UNCHANGED <<renameVars, birds_df, mainPc, session, semaphore, waiters, sleepLeft,
                   sinceGet, dirs, fetch, licensing_metadata, downloads, files,
                   all_licensing, ledger>>

\* ------------------------------------------------------ download_content
\* DownloadOk as it would be if a download waited for the permit to be free
DownloadOkUnderPermit(s, k) ==
    /\ k \in DOMAIN downloads[s]
    /\ downloads[s][k].st = "inflight"
    /\ session = "open"
    /\ semaphore > 0
    /\ downloads' = [downloads EXCEPT ![s][k].st = "ok"]
    /\ files' = files \cup {downloads[s][k].filename}
    /\ UNCHANGED <<renameVars, birds_df, returned, mainPc, session, semaphore, waiters,
                   sleepLeft, sinceGet, spPc, dirs, fetch, data, licensing_metadata,
                   all_licensing, ledger>>

\* status 200: the body is written to filename (lines 52-55)
DownloadOk(s, k) ==
    /\ k \in DOMAIN downloads[s]
    /\ downloads[s][k].st = "inflight"
    /\ session = "open"
    /\ downloads' = [downloads EXCEPT ![s][k].st = "ok"]
    /\ files' = files \cup {downloads[s][k].filename}
    /\ UNCHANGED <<renameVars, birds_df, returned, mainPc, session, semaphore, waiters,
                   sleepLeft, sinceGet, spPc, dirs, fetch, data, licensing_metadata,
                   all_licensing, ledger>>

\* DownloadNon200 as it would be if a failed download withdrew its record
DownloadNon200DropsRecord(s, k) ==
    /\ k \in DOMAIN downloads[s]
    /\ downloads[s][k].st = "inflight"
    /\ session = "open"
    /\ downloads' = [downloads EXCEPT ![s][k].st = "failed"]
    /\ licensing_metadata' = [licensing_metadata EXCEPT ![s] =
            SelectSeq(@, LAMBDA r : r.medium_url # downloads[s][k].url)]
    /\ UNCHANGED <<renameVars, birds_df, returned, mainPc, session, semaphore, waiters,
                   sleepLeft, sinceGet, spPc, dirs, fetch, data, files, all_licensing,
                   ledger>>

\* any other status: a message is printed (lines 57-58)
DownloadNon200(s, k) ==
    /\ k \in DOMAIN downloads[s]
    /\ downloads[s][k].st = "inflight"
    /\ session = "open"
    /\ downloads' = [downloads EXCEPT ![s][k].st = "failed"]
    /\ UNCHANGED <<renameVars, birds_df, returned, mainPc, session, semaphore, waiters,
                   sleepLeft, sinceGet, spPc, dirs, fetch, data, licensing_metadata, files,
                   all_licensing, ledger>>

\* DownloadException as it would be without the try/except: the exception
\* reaches the gather of line 130 and process_species raises
DownloadExceptionUncaught(s, k) ==
    /\ k \in DOMAIN downloads[s]
    /\ downloads[s][k].st = "inflight"
    /\ downloads' = [downloads EXCEPT ![s][k].st = "failed"]
    /\ spPc' = [spPc EXCEPT ![s] = "failed"]
    /\ UNCHANGED <<renameVars, birds_df, returned, mainPc, session, semaphore, waiters,
                   sleepLeft, sinceGet, dirs, fetch, data, licensing_metadata, files,
                   all_licensing, ledger>>

\* an exception is caught and printed (lines 59-60)
DownloadException(s, k) ==
    /\ k \in DOMAIN downloads[s]
    /\ downloads[s][k].st = "inflight"
    /\ downloads' = [downloads EXCEPT ![s][k].st = "failed"]
    /\ UNCHANGED <<renameVars, birds_df, returned, mainPc, session, semaphore, waiters,
                   sleepLeft, sinceGet, spPc, dirs, fetch, data, licensing_metadata, files,
                   all_licensing, ledger>>

\* ------------------------------------------------------------------ main
RECURSIVE Concat(_)
Concat(q) == IF q = <<>> THEN <<>> ELSE Head(q) \o Concat(Tail(q))

\* MainCollect as it would be if the lists were taken as the tasks completed
MainCollectAsCompleted ==
    /\ mainPc = "gathering"
    /\ \A s \in Species : spPc[s] = "done"
    /\ all_licensing' = Concat([i \in DOMAIN returned |-> licensing_metadata[returned[i]]])
    /\ session' = "closed"
    /\ mainPc' = "closed"
    /\ UNCHANGED <<renameVars, birds_df, returned, semaphore, waiters, sleepLeft, sinceGet,
                   spPc, dirs, fetch, data, licensing_metadata, downloads, files, ledger>>

\* MainCollect as it would be if each metadata replaced all_licensing
\* instead of extending it
MainCollectAssigns ==
    /\ mainPc = "gathering"
    /\ \A s \in Species : spPc[s] = "done"
    /\ all_licensing' = licensing_metadata[NumSpecies]
    /\ session' = "closed"
    /\ mainPc' = "closed"
    /\ UNCHANGED <<renameVars, birds_df, returned, semaphore, waiters, sleepLeft, sinceGet,
                   spPc, dirs, fetch, data, licensing_metadata, downloads, files, ledger>>

\* lines 146-148 and the end of `async with`: every species returned; extend
\* all_licensing in the order of the tasks; the session closes
MainCollect ==
    /\ mainPc = "gathering"
    /\ \A s \in Species : spPc[s] = "done"
    /\ all_licensing' = Concat([s \in Species |-> licensing_metadata[s]])
    /\ session' = "closed"
    /\ mainPc' = "closed"
    /\ UNCHANGED <<renameVars, birds_df, returned, semaphore, waiters, sleepLeft, sinceGet,
                   spPc, dirs, fetch, data, licensing_metadata, downloads, files, ledger>>

\* WriteLedger as it would be if the ledger were also written when main
\* is left by an exception
WriteLedgerOnAbort ==
    /\ mainPc \in {"closed", "aborted"}
    /\ ledger' = all_licensing
    /\ mainPc' = "done"
    /\ UNCHANGED <<renameVars, birds_df, returned, session, semaphore, waiters, sleepLeft,
                   sinceGet, spPc, dirs, fetch, data, licensing_metadata, downloads, files,
                   all_licensing>>

\* lines 150-152: the ledger is written
WriteLedger ==
    /\ mainPc = "closed"
    /\ ledger' = all_licensing
    /\ mainPc' = "done"
    /\ UNCHANGED <<renameVars, birds_df, returned, session, semaphore, waiters, sleepLeft,
                   sinceGet, spPc, dirs, fetch, data, licensing_metadata, downloads, files,
                   all_licensing>>

\* line 146: gather re-raises the first exception of a species task; it leaves
\* `async with aiohttp.ClientSession()`, closing the session, and main raises
MainAbort ==
    /\ mainPc = "gathering"
    /\ \E s \in Species : spPc[s] = "failed"
    /\ session' = "closed"
    /\ mainPc' = "aborted"
    /\ UNCHANGED <<renameVars, birds_df, returned, semaphore, waiters, sleepLeft, sinceGet,
                   spPc, dirs, fetch, data, licensing_metadata, downloads, files,
                   all_licensing, ledger>>

InPermit(st) == st \in {"inflight", "cooldown"}

\* line 155: asyncio.run cancels every task still pending once main has
\* raised; a cancelled permit holder releases the permit on its way out
CancelAll ==
    /\ mainPc = "aborted"
    /\ mainPc' = "cancelled"
    /\ fetch' = [s \in Species |-> [p \in Pages |->
                    IF fetch[s][p] \in {"pending", "inflight", "cooldown"}
                    THEN "cancelled" ELSE fetch[s][p]]]
    /\ semaphore' = semaphore +
                    Cardinality({sp \in Species \X Pages : InPermit(fetch[sp[1]][sp[2]])})
    /\ waiters' = <<>>
    /\ sleepLeft' = 0
    /\ downloads' = [s \in Species |-> [k \in DOMAIN downloads[s] |->
                    IF downloads[s][k].st = "inflight"
                    THEN [downloads[s][k] EXCEPT !.st = "cancelled"]
                    ELSE downloads[s][k]]]
    /\ spPc' = [s \in Species |->
                    IF spPc[s] \in {"init", "fetching", "downloading"}
                    THEN "cancelled" ELSE spPc[s]]
    /\ UNCHANGED <<renameVars, birds_df, returned, session, sinceGet, dirs, data,
                   licensing_metadata, files, all_licensing, ledger>>

Next ==
    \/ \E s \in Species : ProcessStart(s)
    \/ \E s \in Species, p \in Pages : FetchAcquire(s, p)
    \/ \E s \in Species, p \in Pages : FetchRespond(s, p)
    \/ \E s \in Species, p \in Pages : FetchReturn(s, p)
    \/ \E s \in Species, p \in Pages : FetchRaise(s, p)
    \/ Tick
    \/ \E s \in Species : ProcessResults(s)
    \/ \E s \in Species : SpeciesRaise(s)
    \/ \E s \in Species : SpeciesReturn(s)
    \/ \E s \in Species, k \in 1..MaxPhotos : DownloadOk(s, k)
    \/ \E s \in Species, k \in 1..MaxPhotos : DownloadNon200(s, k)
    \/ \E s \in Species, k \in 1..MaxPhotos : DownloadException(s, k)
    \/ MainCollect
    \/ WriteLedger
    \/ MainAbort
    \/ CancelAll

Spec == Init /\ [][Next]_vars

\* The event loop does not stop while a task can take a step, a request
\* that was issued is answered, and time passes.
FairSpec == Spec /\ WF_vars(Next)

\* ======================================================================
\* scripts/rename_files.py: rename_image_files(folder_path)
\* ======================================================================
MaxFiles == 3            \* files in the folder

\* os.path.basename(os.path.normpath(folder_path)): the folder of species "C"
FolderName == BirdNameReplace(BirdNames[3])

\* The names a file of the folder may have: two as fetch_images.py writes
\* them, "0.jpg", "1.JPG", "x3.png", the hidden ".9.jpg", "DS_Store" and
\* "x.jpg", which has no digit.
Candidates ==
    { Filename(BirdNames[3], 1), Filename(BirdNames[3], 2),
      <<"0", ".jpg">>, <<"1", ".JPG">>, <<"x", "3", ".png">>,
      <<".", "9", ".jpg">>, <<"DS_Store">>, <<"x", ".jpg">> }

\* A folder maps each file name to the file's content; at first every file
\* holds the content named after it.
Folders ==
    { [f \in S |-> f] : S \in {X \in SUBSET Candidates : Cardinality(X) <= MaxFiles} }

IsDigit(c) == c \in {Digit(d) : d \in 0..9}

\* re.sub('\D', '', f)
DigitsOf(f) == SelectSeq(f, IsDigit)

\* int(ds) of a non-empty string of digits
RECURSIVE IntOf(_)
IntOf(ds) ==
    IF ds = <<>> THEN 0
    ELSE 10 * IntOf(SubSeq(ds, 1, Len(ds) - 1)) + DigitVal(ds[Len(ds)])

\* the sort key of line 23
SortKey(f) == IntOf(DigitsOf(f))

\* lines 20-21: os.listdir without the names starting with "." and "DS_Store"
Listed(fd) == {f \in DOMAIN fd : ~ (f[1] = "." \/ f = <<"DS_Store">>)}

\* The orders list.sort may leave the names of S in: ascending by key, names
\* of equal key in the order os.listdir gave them, which is arbitrary.
SortedLists(S) ==
    { q \in [1..Cardinality(S) -> S] :
        /\ \A i \in DOMAIN q, j \in DOMAIN q : i # j => q[i] # q[j]
        /\ \A i \in DOMAIN q, j \in DOMAIN q : i < j => SortKey(q[i]) <= SortKey(q[j]) }

\* os.path.splitext(old_fname)[1]
Extension(old_fname) ==
    IF Len(old_fname) > 1 /\ old_fname[Len(old_fname)] \in {".jpg", ".JPG", ".png"}
    THEN <<old_fname[Len(old_fname)]>>
    ELSE <<>>

\* extension.lower()
ExtensionLower(e) == [i \in DOMAIN e |-> IF e[i] = ".JPG" THEN ".jpg" ELSE Lower(e[i])]

\* f"{folder_name}_{idx}{extension.lower()}"
NewFname(i, old_fname) ==
    FolderName \o <<"_">> \o Str(i) \o ExtensionLower(Extension(old_fname))

\* rename_image_files is called on a folder
RenameInit ==
    /\ RunInit
    /\ birds_df[1].bird_name = BirdNames[1]
    /\ folder \in Folders
    /\ files_list = <<>>
    /\ idx = 1
    /\ renamePc = "listing"

\* lines 20-23: list the files and sort them by the integer of their digits
ListFiles ==
    /\ renamePc = "listing"
    /\ \A f \in Listed(folder) : DigitsOf(f) # <<>>
    /\ files_list' \in SortedLists(Listed(folder))
    /\ idx' = 1
    /\ renamePc' = "renaming"
    /\ UNCHANGED <<runVars, folder>>

\* line 23: int('') raises ValueError for a name without a digit
SortRaises ==
    /\ renamePc = "listing"
    /\ \E f \in Listed(folder) : DigitsOf(f) = <<>>
    /\ renamePc' = "raised"
    /\ UNCHANGED <<runVars, folder, files_list, idx>>

\* lines 25-31, one turn of the loop: os.rename moves the file, replacing a
\* file that has the new name (POSIX)
RenameFile ==
    /\ renamePc = "renaming"
    /\ idx <= Len(files_list)
    /\ files_list[idx] \in DOMAIN folder
    /\ LET old_fname == files_list[idx]
           new_fname == NewFname(idx, old_fname)
       IN folder' = IF old_fname = new_fname
                    THEN folder
                    ELSE [f \in (DOMAIN folder \ {old_fname}) \cup {new_fname} |->
                            IF f = new_fname THEN folder[old_fname] ELSE folder[f]]
    /\ idx' = idx + 1
    /\ UNCHANGED <<runVars, files_list, renamePc>>

\* line 31 where os.rename refuses an existing destination (Windows):
\* FileExistsError ends the function
RenameFileExists ==
    /\ renamePc = "renaming"
    /\ idx <= Len(files_list)
    /\ LET old_fname == files_list[idx]
           new_fname == NewFname(idx, old_fname)
       IN old_fname # new_fname /\ new_fname \in DOMAIN folder
    /\ renamePc' = "raised"
    /\ UNCHANGED <<runVars, folder, files_list, idx>>

\* line 32: the loop is over
RenameFinished ==
    /\ renamePc = "renaming"
    /\ idx > Len(files_list)
    /\ renamePc' = "done"
    /\ UNCHANGED <<runVars, folder, files_list, idx>>

RenameNext ==
    \/ ListFiles
    \/ SortRaises
    \/ RenameFile
    \/ RenameFileExists
    \/ RenameFinished

RenameSpec == RenameInit /\ [][RenameNext]_vars

\* ======================================================================
\* Properties
\* ======================================================================
Fetches == Species \X Pages

PermitHolders == {f \in Fetches : InPermit(fetch[f[1]][f[2]])}

\* C1: in every reachable state at most one fetch_page call, over all species
\* and pages, is between acquiring the semaphore and releasing it after the
\* cooldown; so no two page GETs are in flight together.
C1_SinglePermitHolder == Cardinality(PermitHolders) <= 1

\* a fetch sleeps in its cooldown while fetches of both species wait
C1_Witness ==
    /\ fetch[1][1] = "cooldown"
    /\ sleepLeft > 0
    /\ fetch[1][2] = "pending"
    /\ fetch[2][1] = "pending"

\* C2: a page GET is issued only when at least API_REQUEST_INTERVAL time
\* units have passed since the previous page GET was issued.
C2_MinGapBetweenGets ==
    [][\A f \in Fetches :
         (fetch[f[1]][f[2]] = "pending" /\ fetch'[f[1]][f[2]] = "inflight")
            => sinceGet >= API_REQUEST_INTERVAL]_vars

NoFetchFailed == \A f \in Fetches : fetch[f[1]][f[2]] # "failed"

\* some task can take a step
TaskStepEnabled ==
    ENABLED (Next /\ (mainPc' # mainPc \/ spPc' # spPc \/ fetch' # fetch
                        \/ downloads' # downloads))

\* C3: as long as no page fetch has failed, whatever the downloads' outcomes:
\* no species task fails, main does not abort, no download task is cancelled,
\* the run is never stuck short of the ledger write, and when the ledger is
\* written every download task of every species has been attempted and has ended.
C3_DownloadFailureIsolated ==
    NoFetchFailed =>
        /\ mainPc \in {"gathering", "closed", "done"}
        /\ \A s \in Species : spPc[s] \notin {"failed", "cancelled"}
        /\ \A s \in Species : \A k \in DOMAIN downloads[s] :
                downloads[s][k].st \in {"inflight", "ok", "failed"}
        /\ mainPc = "done" =>
                /\ ledger # NoLedger
                /\ \A s \in Species : \A k \in DOMAIN downloads[s] :
                        downloads[s][k].st \in {"ok", "failed"}
        /\ mainPc = "done" \/ sleepLeft > 0 \/ TaskStepEnabled

\* the ledger is written in a run where photo 1 of a species failed to
\* download and photo 2 of the same species was downloaded
C3_Witness ==
    /\ mainPc = "done"
    /\ ledger # NoLedger
    /\ \E s \in Species :
        /\ Len(downloads[s]) >= 2
        /\ downloads[s][1].st = "failed"
        /\ downloads[s][2].st = "ok"

\* photos with a non-empty url on the pages fetched for species s
UrlsSeen(s) == SumSeq([p \in Pages |-> UrlsOfBody(data[s][p])])

\* some photo of the pages fetched for species s has no url
SomeEmptyUrl(s) ==
    \E p \in Pages :
        /\ data[s][p].kind = "page"
        /\ \E o \in DOMAIN data[s][p].results :
             \E k \in DOMAIN data[s][p].results[o].photos :
                data[s][p].results[o].photos[k].url = <<>>

\* C4: once process_species has gone through the pages of a species, the
\* number of its LicensingRecords equals the number of photos with a
\* non-empty url on those pages, and no record has an empty photo_url.
C4_RecordCountEqualsUrls ==
    \A s \in Species :
        spPc[s] = "downloading" =>
            /\ Len(licensing_metadata[s]) = UrlsSeen(s)
            /\ \A i \in DOMAIN licensing_metadata[s] :
                    licensing_metadata[s][i].photo_url # <<>>

\* a species has two records and a photo without url was on its pages
C4_Witness ==
    \E s \in Species :
        /\ spPc[s] = "downloading"
        /\ SomeEmptyUrl(s)
        /\ Len(licensing_metadata[s]) = 2

\* C5: the filenames of the records of a species are pairwise distinct and
\* the i-th is {slug}_{i}.jpg: the indices are 1..N with no gap.
C5_FilenamesContiguous ==
    \A s \in Species :
        LET md == licensing_metadata[s]
        IN /\ \A i \in DOMAIN md : md[i].filename = Filename(birds_df[s].bird_name, i)
           /\ \A i, j \in DOMAIN md : i # j => md[i].filename # md[j].filename

\* a species has returned two records
C5_Witness ==
    \E s \in Species : spPc[s] = "done" /\ Len(licensing_metadata[s]) = 2

\* where the API served the photo of a record: <<page, observation, photo>>
Pos(r) == <<DigitVal(r.photo_url[3]), DigitVal(r.photo_url[4]), DigitVal(r.photo_url[5])>>

LexLess(a, b) ==
    \/ a[1] < b[1]
    \/ a[1] = b[1] /\ a[2] < b[2]
    \/ a[1] = b[1] /\ a[2] = b[2] /\ a[3] < b[3]

\* C6: within one species the records, and with them the indices, follow the
\* page number, then the observation within the page, then the photo within
\* the observation.
C6_RecordsInPageOrder ==
    \A s \in Species :
        LET md == licensing_metadata[s]
        IN \A i, j \in DOMAIN md :
              i < j => /\ LexLess(Pos(md[i]), Pos(md[j]))
                       /\ md[i].filename = Filename(birds_df[s].bird_name, i)
                       /\ md[j].filename = Filename(birds_df[s].bird_name, j)

\* a species has a record of page 1 followed by a record of page 2
C6_Witness ==
    \E s \in Species :
        /\ Len(licensing_metadata[s]) = 2
        /\ Pos(licensing_metadata[s][1])[1] = 1
        /\ Pos(licensing_metadata[s][2])[1] = 2

\* each record has its download task, to the species directory joined with the
\* record's filename, from the record's medium_url; no photo has two records;
\* a returned species has attempted every download
RecordsMatchDownloads ==
    \A s \in Species :
        LET md == licensing_metadata[s]
        IN /\ Len(downloads[s]) = Len(md)
           /\ \A k \in DOMAIN md :
                /\ downloads[s][k].filename =
                        PathJoin(SpeciesDir(birds_df[s].bird_name), md[k].filename)
                /\ downloads[s][k].url = md[k].medium_url
           /\ \A i, j \in DOMAIN md : i # j => md[i].photo_url # md[j].photo_url
           /\ spPc[s] = "done" =>
                \A k \in DOMAIN downloads[s] : downloads[s][k].st \in {"ok", "failed"}

\* C7: every record has exactly one download attempt, whose destination is
\* the species directory joined with the record's filename and whose source
\* is the record's medium_url, and no outcome of a download changes the
\* records of a species once they are built.
C7_OneRecordOneDownload ==
    [][/\ RecordsMatchDownloads'
       /\ \A s \in Species :
            spPc[s] \in {"downloading", "done"}
                => licensing_metadata'[s] = licensing_metadata[s]]_vars

\* a species returned a record although all its downloads failed
C7_Witness ==
    \E s \in Species :
        /\ spPc[s] = "done"
        /\ Len(licensing_metadata[s]) >= 1
        /\ \A k \in DOMAIN downloads[s] :
            downloads[s][k].st = "failed" /\ downloads[s][k].filename \notin files

\* C8: a download never waits for the permit: while the session is open, a
\* download in flight can complete whoever holds the permit.
C8_DownloadsNotRateLimited ==
    \A s \in Species : \A k \in DOMAIN downloads[s] :
        (downloads[s][k].st = "inflight" /\ session = "open")
            => ENABLED DownloadOk(s, k)

\* a download of one species has completed, and another is in flight, while
\* a page fetch of another species sleeps in its cooldown
C8_Witness ==
    \E s, r \in Species :
        /\ s # r
        /\ \E p \in Pages : fetch[r][p] = "cooldown" /\ sleepLeft > 0
        /\ semaphore = 0
        /\ spPc[s] = "downloading"
        /\ \E k \in DOMAIN downloads[s] : downloads[s][k].st = "ok"

\* C9: a page result that is empty or lacks "results" is skipped: the records
\* and download tasks of the species are those of its other pages alone,
\* numbered from 1, and none comes from the skipped page.
C9_BadPageSkipped ==
    \A s \in Species :
        spPc[s] = "downloading" =>
            LET good == SelectSeq(GatherResults(s), HasResults)
                rest == ResultsLoop(LoopInit, birds_df[s].bird_name, good, 1)
            IN /\ licensing_metadata[s] = rest.metadata
               /\ Len(downloads[s]) = Len(rest.tasks)
               /\ \A k \in DOMAIN downloads[s] :
                    /\ downloads[s][k].url = rest.tasks[k].url
                    /\ downloads[s][k].filename = rest.tasks[k].filename
               /\ \A i \in DOMAIN licensing_metadata[s] :
                    HasResults(data[s][Pos(licensing_metadata[s][i])[1]])

\* page 1 of a species lacked "results" and the photo of its page 2 got index 1
C9_Witness ==
    \E s \in Species :
        /\ spPc[s] = "downloading"
        /\ data[s][1] = NoKey
        /\ Len(licensing_metadata[s]) >= 1
        /\ Pos(licensing_metadata[s][1])[1] = 2
        /\ licensing_metadata[s][1].filename = Filename(birds_df[s].bird_name, 1)

\* every page fetched for species s is a page without a photo
ZeroPhotos(s) ==
    \A p \in Pages :
        /\ data[s][p].kind = "page"
        /\ \A o \in DOMAIN data[s][p].results : data[s][p].results[o].photos = <<>>

\* C10: a species whose pages hold no observation, or no photo, has no
\* record and no download task, its directory exists, and it can return.
C10_ZeroPhotoSpecies ==
    \A s \in Species :
        /\ spPc[s] # "init" => SpeciesDir(birds_df[s].bird_name) \in dirs
        /\ (spPc[s] = "downloading" /\ ZeroPhotos(s)) =>
                /\ licensing_metadata[s] = <<>>
                /\ downloads[s] = <<>>
                /\ ENABLED SpeciesReturn(s)

\* a species with two pages of zero observations has gone through them
C10_Witness ==
    \E s \in Species :
        /\ spPc[s] = "downloading"
        /\ ZeroPhotos(s)
        /\ SpeciesDir(birds_df[s].bird_name) \in dirs

\* the rows of q that come from species s: the taxon is part of the photo url
RowsOf(q, s) == SelectSeq(q, LAMBDA r : r.photo_url[2] = Digit(birds_df[s].taxon_id))

\* C11: the written ledger has one row per photo found across all species
\* (its length is the sum of the species' record counts, and of their
\* download tasks), and the rows of each species are that species's records
\* in their own order.
C11_LedgerRows ==
    ledger # NoLedger =>
        /\ Len(ledger) = SumSeq([s \in Species |-> Len(licensing_metadata[s])])
        /\ Len(ledger) = SumSeq([s \in Species |-> Len(downloads[s])])
        /\ \A s \in Species : RowsOf(ledger, s) = licensing_metadata[s]

\* a ledger was written in a run in which the first species had two records
\* or each of two species had one
C11_Witness ==
    /\ ledger # NoLedger
    /\ Len(ledger) = 2
    /\ \/ Len(licensing_metadata[1]) = 2
       \/ Len(licensing_metadata[1]) = 1 /\ Len(licensing_metadata[NumSpecies]) = 1

\* the destination paths of the download tasks of species s, in task order
TaskPaths(s) == [k \in DOMAIN downloads[s] |-> downloads[s][k].filename]

\* the filenames in the records of species s, in record order
RecordNames(s) == [i \in DOMAIN licensing_metadata[s] |-> licensing_metadata[s][i].filename]

\* what the species table and the page bodies alone determine for species s
FromInputs(s) == ResultsLoop(LoopInit, birds_df[s].bird_name, [p \in Pages |-> data[s][p]], 1)

\* C12: the filenames of a species and the length of the ledger are a
\* function of the species table and the API's answers alone: the step that
\* gives a species its tasks and records gives it what its name and page
\* bodies determine, no later step (whatever the order of fetches and downloads and
\* whatever each download's outcome) changes a filename, and the ledger's
\* length is the sum of those record counts.  Two runs on the same inputs
\* therefore agree on both.
C12_FilenamesDeterministic ==
    [][\A s \in Species :
          /\ (spPc[s] = "fetching" /\ spPc'[s] = "downloading") =>
                /\ data'[s] = data[s]
                /\ TaskPaths(s)' = [k \in DOMAIN FromInputs(s)'.tasks |->
                                        FromInputs(s)'.tasks[k].filename]
                /\ RecordNames(s)' = [i \in DOMAIN FromInputs(s)'.metadata |->
                                        FromInputs(s)'.metadata[i].filename]
          /\ spPc[s] \in {"downloading", "done"} =>
                /\ licensing_metadata'[s] = licensing_metadata[s]
                /\ DOMAIN downloads'[s] = DOMAIN downloads[s]
                /\ \A k \in DOMAIN downloads[s] :
                        downloads'[s][k].filename = downloads[s][k].filename
                /\ data'[s] \in {data[s], [p \in Pages |-> NoData]}
          /\ ledger' # NoLedger =>
                Len(ledger') = SumSeq([r \in Species |-> Len(RecordNames(r))])
      ]_vars

\* a ledger of two rows was written although, of the two downloads of one
\* species, one succeeded and one failed
C12_Witness ==
    /\ ledger # NoLedger
    /\ Len(ledger) = 2
    /\ \E s \in Species :
        /\ Len(downloads[s]) = 2
        /\ downloads[s][1].st = "ok"
        /\ downloads[s][2].st = "failed"
        /\ RecordNames(s) = <<Filename(birds_df[s].bird_name, 1),
                               Filename(birds_df[s].bird_name, 2)>>

\* C13: a species has a download task (started, ended or cancelled) only
\* once every one of its page fetches has completed; nothing ties it to the
\* page fetches of the other species.
C13_DownloadsAfterOwnFetches ==
    \A s \in Species :
        (downloads[s] # <<>> \/ spPc[s] \in {"downloading", "done"}) =>
            \A p \in Pages : fetch[s][p] = "done"

\* a download of one species is in flight while a page request of another
\* species is in flight
C13_Witness ==
    \E s \in Species, r \in Species :
        /\ s # r
        /\ \E k \in DOMAIN downloads[s] : downloads[s][k].st = "inflight"
        /\ \E p \in Pages : fetch[r][p] = "inflight"
        /\ \A p \in Pages : fetch[s][p] = "done"

\* species task s has not ended yet
Running(s) == spPc[s] \in {"init", "fetching", "downloading"}

\* C14: the ledger is written at most once, and only when every species
\* task has returned and every download attempt has ended; while a species
\* task is still running the merged list is empty and there is no ledger; a
\* run that main left by an exception has no ledger.
C14_LedgerOnceAtEnd ==
    [][/\ ledger # NoLedger => ledger' = ledger
       /\ ledger' # NoLedger =>
            /\ \A s \in Species : spPc'[s] = "done"
            /\ \A s \in Species : \A k \in DOMAIN downloads'[s] :
                    downloads'[s][k].st \in {"ok", "failed"}
       /\ (\E s \in Species : Running(s)') =>
            all_licensing' = <<>> /\ ledger' = NoLedger
       /\ mainPc' \in {"aborted", "cancelled"} => ledger' = NoLedger
      ]_vars

\* the ledger has been written, with a row for each of two species, one of
\* whose downloads failed
C14_Witness ==
    /\ mainPc = "done"
    /\ ledger # NoLedger
    /\ \A s \in Species : Len(licensing_metadata[s]) = 1
    /\ \E s \in Species : downloads[s][1].st = "failed"

\* main was left by an exception while a species was downloading: no ledger
C14_WitnessAborted ==
    /\ mainPc = "cancelled"
    /\ ledger = NoLedger
    /\ \E s \in Species : \E k \in DOMAIN downloads[s] : downloads[s][k].st = "cancelled"

\* C15: once a page fetch of a species has failed, that species never has a
\* download task or a record, whatever its other pages brought, it never
\* reaches the download phase or returns, and while it still awaits its
\* pages the failure can reach it.
C15_FetchFailurePropagates ==
    \A s \in Species :
        (\E p \in Pages : fetch[s][p] = "failed") =>
            /\ downloads[s] = <<>>
            /\ licensing_metadata[s] = <<>>
            /\ spPc[s] \in {"fetching", "failed", "cancelled"}
            /\ ~ ENABLED ProcessResults(s)
            /\ spPc[s] = "fetching" => ENABLED SpeciesRaise(s)
            /\ all_licensing = <<>>
            /\ ledger = NoLedger

\* a species failed on its second page although its first page had brought a
\* photo with a url
C15_Witness ==
    \E s \in Species :
        /\ spPc[s] = "failed"
        /\ fetch[s][1] = "done"
        /\ UrlsOfBody(data[s][1]) >= 1
        /\ fetch[s][2] = "failed"
        /\ downloads[s] = <<>>

\* the table row a ledger row comes from
RowSpecies(r) == CHOOSE s \in Species : birds_df[s].taxon_id = DigitVal(r.photo_url[2])

\* the rows of q go by table row: no row of a later species precedes a row
\* of an earlier one
InTableOrder(q) ==
    \A i \in DOMAIN q, j \in DOMAIN q : i < j => RowSpecies(q[i]) <= RowSpecies(q[j])

\* C16: in the merged list and in the ledger the rows never go back to an
\* earlier table row: each species's rows are one block and the blocks are
\* in table order, in whatever order the species tasks returned.
C16_BlocksInTableOrder ==
    /\ InTableOrder(all_licensing)
    /\ ledger # NoLedger => InTableOrder(ledger)

\* the second species returned before the first, each with one record, and
\* the ledger was written
C16_Witness ==
    /\ ledger # NoLedger
    /\ returned = <<2, 1>>
    /\ Len(licensing_metadata[1]) = 1
    /\ Len(licensing_metadata[2]) = 1

\* some page request has raised
SomeFetchFailed == \E f \in Fetches : fetch[f[1]][f[2]] = "failed"

\* C17: under fair scheduling, a run in which no page request raises comes
\* to a state where every page fetch has had the permit and returned (none
\* is left waiting), the permit is free again, every species task has
\* returned and the ledger is written.
C17_RunCompletes ==
    <>(\/ SomeFetchFailed
       \/ /\ \A f \in Fetches : fetch[f[1]][f[2]] = "done"
          /\ waiters = <<>>
          /\ semaphore = 1
          /\ \A s \in Species : spPc[s] = "done"
          /\ ledger # NoLedger)

\* a run without a failed request has ended: every fetch done, the permit
\* free, two downloads succeeded and the ledger written
C17_Witness ==
    /\ ~ SomeFetchFailed
    /\ \A f \in Fetches : fetch[f[1]][f[2]] = "done"
    /\ semaphore = 1
    /\ \A s \in Species : spPc[s] = "done"
    /\ ledger # NoLedger
    /\ Cardinality({sk \in Species \X (1..MaxPhotos) :
            sk[2] \in DOMAIN downloads[sk[1]] /\ downloads[sk[1]][sk[2]].st = "ok"}) = 2

\* C18: when the session is closed no page fetch is waiting, in flight or
\* sleeping, no download is in flight and no species task is still running.
C18_SessionClosedAfterTasks ==
    session = "closed" =>
        /\ \A f \in Fetches : fetch[f[1]][f[2]] \notin {"pending", "inflight", "cooldown"}
        /\ \A s \in Species : \A k \in DOMAIN downloads[s] : downloads[s][k].st # "inflight"
        /\ \A s \in Species : ~ Running(s)

\* the same in the runs where no page request has raised
C18_HoldsUnlessFetchFailed == SomeFetchFailed \/ C18_SessionClosedAfterTasks

\* the download tasks of the run
Tasks == {sk \in Species \X (1..MaxPhotos) : sk[2] \in DOMAIN downloads[sk[1]]}

\* no two download tasks have the same destination path
PathsDistinct ==
    \A a \in Tasks, b \in Tasks :
        a # b => downloads[a[1]][a[2]].filename # downloads[b[1]][b[2]].filename

DistinctNames ==
    \A s \in Species, r \in Species :
        s # r => birds_df[s].bird_name # birds_df[r].bird_name

DistinctSlugs ==
    \A s \in Species, r \in Species :
        s # r => BirdNameReplace(birds_df[s].bird_name) # BirdNameReplace(birds_df[r].bird_name)

\* C19: when the species names of the table are pairwise distinct, no two
\* download tasks of the run have the same destination path.
C19_DistinctPaths == DistinctNames => PathsDistinct

\* the same for tables whose names differ after "-" and " " became "_" and
\* the case was folded
C19_HoldsForDistinctSlugs == DistinctSlugs => PathsDistinct

\* the folder holds no hidden file and no DS_Store
AllListed == Listed(folder) = DOMAIN folder

\* every file listed is in the folder under its new name, with its content
Renamed ==
    /\ Cardinality(DOMAIN folder) = Len(files_list)
    /\ \A i \in DOMAIN files_list :
            /\ NewFname(i, files_list[i]) \in DOMAIN folder
            /\ folder[NewFname(i, files_list[i])] = files_list[i]
    /\ \A i \in DOMAIN files_list, j \in DOMAIN files_list :
            i < j => SortKey(files_list[i]) <= SortKey(files_list[j])

\* C20: when rename_image_files has ended on a folder of non-hidden files
\* whose names all have a digit, the folder holds as many files as before,
\* each file listed is there with its own content under <folder_name>_<i>
\* and its extension in lower case, i its rank by the integer of its digits.
C20_RenameKeepsFiles == (renamePc = "done" /\ AllListed) => Renamed

\* no name listed is already of the form <folder_name>_...
NoneNamedAlready ==
    \A i \in DOMAIN files_list :
        SubSeq(files_list[i], 1, Len(FolderName) + 1) # FolderName \o <<"_">>

\* the same for folders none of whose files is already named after the folder
C20_HoldsForForeignNames == (renamePc = "done" /\ AllListed /\ NoneNamedAlready) => Renamed

====
